---- MODULE Spec2Model ----
(***************************************************************************)
(* Model of the weekly-analytics extraction pipeline:                      *)
(*   models/data_models.py  (FunnelEntry, FunnelData, ExcelSheetMetadata,  *)
(*                           ExcelFileMetadata)                            *)
(*   core/extraction.py     (ExcelExtractor)                               *)
(*   utils/logging_utils.py (ContextLogger)                                *)
(***************************************************************************)
EXTENDS Integers, Sequences, FiniteSets, TLC

VARIABLES
    phase,      \* "input": a constructor call is pending; "built": it has run;
                \* "idle": no model is constructed directly
    ctor,       \* the model constructor call of the caller: class and arguments
    built,      \* outcome of the last model constructor call
    file_state, \* the workbook file at self.file_path:
                \* "ok" | "missing" | "denied" | "corrupt"
    frame,      \* the sheet of the workbook as pandas reads it: [columns, rows]
    context,    \* ContextLogger.context of the extractor (key -> value, "" = not set)
    log,        \* log events emitted by the last public call, in order
    last,       \* the last public call on the extractor: arguments and outcome
    folder,     \* the scanned path on disk: [kind, files]
    book        \* the sheets of the workbook, in order, as the reads of
                \* get_file_metadata see them: [name, header, columns, row_count]

vars == <<phase, ctor, built, file_state, frame, context, log, last, folder, book>>

-----------------------------------------------------------------------------
(* Scalars.  A raw spreadsheet cell, a keyword argument and a validated     *)
(* field are all one of: absent (key not in the dict), null (None), nan     *)
(* (float NaN, what pandas reads from an empty cell), a number, a string,   *)
(* a datetime, a dict, a list, or a coercion error.                         *)

Cell(t, n, s) == [t |-> t, n |-> n, s |-> s]
Absent == Cell("absent", 0, "")
Null == Cell("null", 0, "")
NaN == Cell("nan", 0, "")
Num(n) == Cell("num", n, "")
Str(s) == Cell("str", 0, s)
Date(d) == Cell("date", d, "")
Dict1(k, n) == Cell("dict", n, k)      \* the dict {k: n}
EmptyDict == Cell("dict", 0, "")       \* {}
EmptyList == Cell("list", 0, "")       \* []
Error == Cell("error", 0, "")

IsProvided(c) == c.t \notin {"absent", "null"}

\* pd.notna(v): None, NaN and NaT are "not available".
notna(c) == c.t \notin {"null", "nan"}

-----------------------------------------------------------------------------
(* models/data_models.py                                                   *)

\* class ProbabilityStatus(str, Enum)
ProbabilityStatus == {"Low", "Medium", "High", "Closed Won", "Closed Lost"}

\* Fields of FunnelEntry, in declaration order.
FunnelEntryFields ==
    <<"id", "company_name", "project_name", "value", "probability", "status",
      "start_date", "expected_close_date", "contacts", "notes", "last_updated",
      "custom_fields">>

\* Fields declared with Field(...): a value is required.
RequiredFields == {"company_name", "project_name", "value"}

\* Numeric strings that float() parses, among the strings of the model.
ParseFloat(s) ==
    CASE s = "80" -> Num(80)
      [] s = "120" -> Num(120)
      [] OTHER -> Error

\* pydantic's coercion of a provided value to the declared type of a field.
CoerceStr(c) ==
    CASE c.t = "str" -> c
      [] c.t = "num" -> Str(ToString(c.n))
      [] c.t = "nan" -> Str("nan")
      [] OTHER -> Error

CoerceFloat(c) ==
    CASE c.t \in {"num", "nan"} -> c
      [] c.t = "str" -> ParseFloat(c.s)
      [] OTHER -> Error

CoerceDatetime(c) ==
    CASE c.t = "date" -> c
      [] c.t = "num" -> Date(c.n)
      [] OTHER -> Error

CoerceStatus(c) ==
    IF c.t = "str" /\ c.s \in ProbabilityStatus THEN c ELSE Error

CoerceDict(c) == IF c.t = "dict" THEN c ELSE Error

CoerceList(c) == IF c.t = "list" THEN c ELSE Error

Coerce(name, c) ==
    CASE name \in {"id", "company_name", "project_name", "notes"} -> CoerceStr(c)
      [] name \in {"value", "probability"} -> CoerceFloat(c)
      [] name \in {"start_date", "expected_close_date", "last_updated"} -> CoerceDatetime(c)
      [] name = "status" -> CoerceStatus(c)
      [] name = "contacts" -> CoerceList(c)
      [] name = "custom_fields" -> CoerceDict(c)

\* Default of a field that is not given.
FieldDefault(name) ==
    CASE name = "contacts" -> EmptyList
      [] name = "custom_fields" -> EmptyDict
      [] OTHER -> Null

\* A validator that also rejects the upper bound.
validate_probability_excl(v) ==
    IF v.t = "num" /\ (v.n < 0 \/ v.n >= 100) THEN Error ELSE v

\* @validator("probability"): the value is already a float here; both
\* comparisons are false for NaN.
validate_probability(v) ==
    IF v.t = "num" /\ (v.n < 0 \/ v.n > 100) THEN Error ELSE v

\* One field of FunnelEntry: presence, coercion, then its validators.
\* The result is the validated value, or Error.
ValidateField(name, c) ==
    CASE c.t = "absent" ->
            IF name \in RequiredFields THEN Error ELSE FieldDefault(name)
      [] c.t = "null" ->
            IF name \in RequiredFields \/ name = "custom_fields" THEN Error ELSE Null
      [] OTHER ->
            LET v == Coerce(name, c)
            IN  IF v.t = "error" THEN Error
                ELSE IF name = "probability" THEN validate_probability(v)
                ELSE v

FieldSet == {FunnelEntryFields[i] : i \in 1..Len(FunnelEntryFields)}

\* kwargs.get(k): keys outside the model's key universe are not in the dict.
Get(kwargs, k) == IF k \in DOMAIN kwargs THEN kwargs[k] ELSE Absent

\* A date check that also rejects equal dates.
check_dates_strict(values) ==
    LET start_date == IF "start_date" \in DOMAIN values THEN values["start_date"] ELSE Null
        close_date == IF "expected_close_date" \in DOMAIN values
                      THEN values["expected_close_date"] ELSE Null
    IN  ~ (start_date.t = "date" /\ close_date.t = "date" /\ start_date.n >= close_date.n)

\* @root_validator check_dates: values holds the fields that validated.
check_dates(values) ==
    LET start_date == IF "start_date" \in DOMAIN values THEN values["start_date"] ELSE Null
        close_date == IF "expected_close_date" \in DOMAIN values
                      THEN values["expected_close_date"] ELSE Null
    IN  ~ (start_date.t = "date" /\ close_date.t = "date" /\ start_date.n > close_date.n)

\* FunnelEntry(**kwargs): [ok, entry, errors].  Keys that are not fields are
\* ignored (the model's Config is pydantic's default), errors are the names of
\* the fields that failed plus "__root__" for the root validator.
FunnelEntry(kwargs) ==
    LET validated == [f \in FieldSet |-> ValidateField(f, Get(kwargs, f))]
        failed == {f \in FieldSet : validated[f].t = "error"}
        values == [f \in FieldSet \ failed |-> validated[f]]
        errors == failed \cup (IF check_dates(values) THEN {} ELSE {"__root__"})
    IN  [ok |-> errors = {}, entry |-> validated, errors |-> errors]

\* sum(entry.value for entry in entries): left fold from 0 in list order.
RECURSIVE SumValues(_, _)
SumValues(entries, k) ==
    IF k = 0 THEN 0 ELSE SumValues(entries, k - 1) + entries[k].value.n

\* A total that is computed only when the caller gave none.
calculate_total_value_if_missing(entries, total_value) ==
    IF entries # <<>> /\ total_value.t = "null"
    THEN Num(SumValues(entries, Len(entries))) ELSE total_value

\* @root_validator calculate_total_value: the total_value of the built model.
calculate_total_value(entries, total_value) ==
    IF entries # <<>> THEN Num(SumValues(entries, Len(entries))) ELSE total_value

\* FunnelData(entries=..., extraction_date=..., source_file=..., sheet_name=...,
\* total_value=...): entries are FunnelEntry objects; total_value is an
\* Optional[float] the caller may pass.
FunnelData(entries, extraction_date, source_file, sheet_name, total_value) ==
    LET tv == IF IsProvided(total_value) THEN CoerceFloat(total_value) ELSE Null
        errors == IF tv.t = "error" THEN {"total_value"} ELSE {}
    IN  [ok |-> errors = {},
         errors |-> errors,
         entries |-> entries,
         extraction_date |-> extraction_date,
         source_file |-> source_file,
         sheet_name |-> sheet_name,
         total_value |-> IF tv.t = "error" THEN Null
                         ELSE calculate_total_value(entries, tv)]

\* @validator("row_count", "column_count") validate_counts: the outcome for
\* one count.  For v <= 0 the body first evaluates kwargs.get("field").items();
\* kwargs["field"] is the field object, which has no items(), so
\* AttributeError is raised before the ValueError statement is reached, and
\* pydantic turns only ValueError, TypeError and AssertionError into a
\* ValidationError.
validate_counts(v) == IF v <= 0 THEN "AttributeError" ELSE "ok"

\* ExcelSheetMetadata(sheet_name=..., row_count=..., column_count=...,
\* column_headers=...): kind is the class of the built object or of the
\* exception that leaves the constructor.  Fields are validated in
\* declaration order.
ExcelSheetMetadata(sheet_name, row_count, column_count, column_headers) ==
    LET rows == validate_counts(row_count)
        cols == validate_counts(column_count)
    IN  [kind |-> IF rows # "ok" THEN rows
                  ELSE IF cols # "ok" THEN cols
                  ELSE "ExcelSheetMetadata",
         sheet_name |-> sheet_name,
         row_count |-> row_count,
         column_count |-> column_count,
         column_headers |-> column_headers]

\* ExcelFileMetadata(file_path=..., file_size=..., last_modified=...,
\* sheets=...): no validator.
ExcelFileMetadata(file_path, file_size, last_modified, sheets) ==
    [file_path |-> file_path, file_size |-> file_size,
     last_modified |-> last_modified, sheets |-> sheets]

\* obj.name = value on a model object: BaseModel.__setattr__ stores the value;
\* no model declares a Config, so assignment is allowed and runs no validator.
setattr(obj, name, value) == [obj EXCEPT ![name] = value]

-----------------------------------------------------------------------------
(* Bounds and input sets of the data-model constructors.                    *)

MaxEntries == 3     \* longest entry list handed to FunnelData
MaxDate == 2        \* datetimes are 1..MaxDate
MaxCount == 2       \* row and column counts handed to ExcelSheetMetadata

Dates == 1..MaxDate
Times == {1, 2}     \* values of datetime.now()

\* Keyword arguments a caller passes to FunnelEntry: one choice per key.
KwChoices ==
    [company_name : {Absent, Null, Str(""), Str("ABC Corp")},
     project_name : {Absent, Str(""), Str("Website Redesign")},
     value : {Absent, Num(50000), Num(-5), Str("abc")},
     probability : {Absent, Null, Num(-10), Num(-1), Num(0), Num(80), Num(100),
                    Num(101), Num(120), Str("120")},
     start_date : {Absent, Null} \cup {Date(d) : d \in Dates},
     expected_close_date : {Absent} \cup {Date(d) : d \in Dates},
     status : {Absent, Str("High"), Str("Bogus")}]

KwKeys == {"company_name", "project_name", "value", "probability", "start_date",
           "expected_close_date", "status"}

\* The dict of the keys that are actually passed.
Kwargs(choice) ==
    [k \in {k \in KwKeys : choice[k].t # "absent"} |-> choice[k]]

\* Valid entries a caller can hold, to hand to FunnelData.
EntryPool ==
    {FunnelEntry([company_name |-> Str("ABC Corp"),
                  project_name |-> Str("Website Redesign"),
                  value |-> Num(v)]).entry : v \in {50000, 75000, 100000, -5}}

RECURSIVE SeqsUpTo(_, _)
SeqsUpTo(S, n) ==
    IF n = 0 THEN {<<>>}
    ELSE LET shorter == SeqsUpTo(S, n - 1)
         IN  shorter \cup {Append(q, x) : q \in {r \in shorter : Len(r) = n - 1}, x \in S}

NoCall == [cls |-> "none"]
NoFrame == [columns |-> <<>>, rows |-> <<>>]
NoFolder == [kind |-> "missing", files |-> {}]
NoBook == <<>>
FilePath == "funnel.xlsx"
InitContext == [file_path |-> FilePath, sheet_name |-> "", folder_path |-> "", pattern |-> ""]
NoLast == [op |-> "none"]

\* The extractor exists (ExcelExtractor.__init__) but is not used.
ExtractorUnused ==
    /\ file_state = "ok"
    /\ frame = NoFrame
    /\ context = InitContext
    /\ log = <<>>
    /\ last = NoLast
    /\ folder = NoFolder
    /\ book = NoBook

InitModels ==
    /\ phase = "input"
    /\ \/ \E choice \in KwChoices :
             ctor = [cls |-> "FunnelEntry", kwargs |-> Kwargs(choice)]
       \/ \E es \in SeqsUpTo(EntryPool, MaxEntries),
             tv \in {Absent, Null, Num(0), Num(7), Num(225000), Str("abc")},
             sn \in {Null, Str("Sheet1")}, now \in Times :
             ctor = [cls |-> "FunnelData", entries |-> es, total_value |-> tv,
                     sheet_name |-> sn, extraction_date |-> Date(now)]
       \/ \E sn \in {"", "Sheet1"}, rc \in -1..MaxCount, cc \in -1..MaxCount,
             hs \in SeqsUpTo({"Company Name", "Value"}, MaxCount) :
             ctor = [cls |-> "ExcelSheetMetadata", sheet_name |-> sn, row_count |-> rc,
                     column_count |-> cc, column_headers |-> hs]
    /\ built = NoCall
    /\ ExtractorUnused

\* A caller constructs FunnelEntry(**kwargs).
NewFunnelEntry ==
    /\ phase = "input"
    /\ ctor.cls = "FunnelEntry"
    /\ built' = [cls |-> "FunnelEntry", result |-> FunnelEntry(ctor.kwargs)]
    /\ phase' = "built"
    /\ UNCHANGED <<ctor, file_state, frame, context, log, last, folder, book>>

\* A caller constructs FunnelData(entries=..., ..., total_value=...).
NewFunnelData ==
    /\ phase = "input"
    /\ ctor.cls = "FunnelData"
    /\ built' = [cls |-> "FunnelData",
                 result |-> FunnelData(ctor.entries, ctor.extraction_date,
                                       Str("path/to/file.xlsx"), ctor.sheet_name,
                                       ctor.total_value)]
    /\ phase' = "built"
    /\ UNCHANGED <<ctor, file_state, frame, context, log, last, folder, book>>

\* A caller constructs ExcelSheetMetadata(sheet_name=..., ...).
NewSheetMetadata ==
    /\ phase = "input"
    /\ ctor.cls = "ExcelSheetMetadata"
    /\ built' = [cls |-> "ExcelSheetMetadata",
                 result |-> ExcelSheetMetadata(ctor.sheet_name, ctor.row_count,
                                               ctor.column_count, ctor.column_headers)]
    /\ phase' = "built"
    /\ UNCHANGED <<ctor, file_state, frame, context, log, last, folder, book>>

\* The caller that holds a built FunnelEntry or FunnelData assigns to one of
\* its attributes, or appends to / clears its entries list.
SetAttribute ==
    /\ phase = "built"
    /\ built.cls \in {"FunnelEntry", "FunnelData"}
    /\ built.result.ok
    /\ \/ /\ built.cls = "FunnelEntry"
          /\ \E v \in {Num(1), Str("")}, name \in {"value", "company_name"} :
                built' = [built EXCEPT !.result.entry = setattr(@, name, v)]
       \/ /\ built.cls = "FunnelData"
          /\ \E v \in {Num(1), Null} :
                built' = [built EXCEPT !.result = setattr(@, "total_value", v)]
       \/ /\ built.cls = "FunnelData"
          /\ \E es \in {<<>>} \cup {Append(built.result.entries, e) : e \in EntryPool} :
                built' = [built EXCEPT !.result = setattr(@, "entries", es)]
    /\ phase' = "assigned"
    /\ UNCHANGED <<ctor, file_state, frame, context, log, last, folder, book>>

NextModels == NewFunnelEntry \/ NewFunnelData \/ NewSheetMetadata \/ SetAttribute

SpecModels == InitModels /\ [][NextModels]_vars

-----------------------------------------------------------------------------
(* utils/logging_utils.py: ContextLogger                                   *)

\* An update that starts again from the context of a new extractor.
add_context_reset(ctx, key, value) ==
    [k \in DOMAIN ctx |-> IF k = key THEN value ELSE IF k = "file_path" THEN ctx[k] ELSE ""]

\* add_context(sheet_name=...): self.context.update(kwargs)
add_context(ctx, key, value) == [ctx EXCEPT ![key] = value]

\* One emitted log event: level, message, the row a row warning names (0 for
\* the others) and the context _format_message attaches.
Event(level, msg, row, ctx) == [level |-> level, msg |-> msg, row |-> row, ctx |-> ctx]

-----------------------------------------------------------------------------
(* core/extraction.py: extract_data                                        *)

\* The sheet the workbook holds.
WorkbookSheet == "Sheet1"

\* if sheet_name: ...  (None and "" are falsy)
Truthy(sheet_name) == sheet_name.t = "str" /\ sheet_name.s # ""

\* A sheet argument that falls back to the sheet an earlier call left in the
\* logging context.
sheet_argument_sticky(ctx, sheet_name) ==
    IF sheet_name.t = "null" /\ ctx.sheet_name # "" THEN Str(ctx.sheet_name) ELSE sheet_name

\* The sheet handed to pd.read_excel(..., sheet_name=sheet_name): the
\* argument of the call itself, whatever the logging context holds.
sheet_argument(ctx, sheet_name) == sheet_name

\* A check that never reports the path as missing.
exists_unchecked(fstate) == TRUE

\* os.path.exists(self.file_path)
exists(fstate) == fstate # "missing"

\* pd.read_excel(self.file_path, sheet_name=sheet_name): the exception it
\* raises, or what it returns: one DataFrame for a named sheet, a dict of
\* DataFrames (one per sheet) for sheet_name=None.
read_excel(fstate, frm, sheet_name) ==
    CASE fstate = "missing" -> [kind |-> "FileNotFoundError", frame |-> NoFrame]
      [] fstate = "denied" -> [kind |-> "PermissionError", frame |-> NoFrame]
      [] fstate = "corrupt" -> [kind |-> "ValueError", frame |-> NoFrame]
      [] OTHER ->
            IF sheet_name.t = "null" THEN [kind |-> "dict", frame |-> frm]
            ELSE IF sheet_name = Str(WorkbookSheet) THEN [kind |-> "DataFrame", frame |-> frm]
            ELSE [kind |-> "ValueError", frame |-> NoFrame]

\* Whether the read raised.
IsRaise(r) == r.kind \notin {"DataFrame", "dict"}

\* The except clauses of extract_data, get_sheet_names, get_file_metadata and
\* scan_folder_for_excel_files: FileNotFoundError and PermissionError are
\* raised again as themselves, everything else as a plain Exception.
Reraise(kind) ==
    CASE kind = "FileNotFoundError" -> "FileNotFoundError"
      [] kind = "PermissionError" -> "PermissionError"
      [] OTHER -> "Exception"

\* The message logged by the except clause that catches `kind`.
ExceptMessage(kind, generic) ==
    CASE kind = "FileNotFoundError" -> "Excel file not found"
      [] kind = "PermissionError" -> "Permission error when accessing Excel file"
      [] OTHER -> generic

\* extract_data(sheet_name): [ret, log, context, io].  ret.kind is the type of the
\* returned value or of the raised exception.
extract_data(ctx, sheet_name, fstate, frm) ==
    LET ctx1 == IF Truthy(sheet_name) THEN add_context(ctx, "sheet_name", sheet_name.s)
                ELSE ctx
        start == <<Event("info", "Extracting data from Excel file", 0, ctx1)>>
        read == read_excel(fstate, frm, sheet_argument(ctx, sheet_name))
        \* df.shape in the success message: a dict has no shape
        raised == IF IsRaise(read) THEN read.kind
                  ELSE IF read.kind = "dict" THEN "AttributeError"
                  ELSE "none"
    IN  IF ~ exists(fstate) THEN
            [ret |-> [kind |-> Reraise("FileNotFoundError"), frame |-> NoFrame],
             log |-> start \o <<Event("error", "Excel file not found", 0, ctx1),
                                Event("error", "Excel file not found", 0, ctx1)>>,
             context |-> ctx1,
             io |-> <<"exists">>]
        ELSE IF raised # "none" THEN
            [ret |-> [kind |-> Reraise(raised), frame |-> NoFrame],
             log |-> start \o
                     <<Event("error",
                             ExceptMessage(raised, "Error extracting data from Excel file"),
                             0, ctx1)>>,
             context |-> ctx1,
             io |-> <<"exists", "read_excel">>]
        ELSE
            [ret |-> read,
             log |-> start \o <<Event("info", "Successfully extracted data", 0, ctx1)>>,
             context |-> ctx1,
             io |-> <<"exists", "read_excel">>]

-----------------------------------------------------------------------------
(* core/extraction.py: extract_validated_data                              *)

\* The mapping used when the caller passes mapping=None.
DefaultMapping ==
    [k \in {"Company", "Project", "Value", "Probability (%)", "Status", "Start Date",
            "Expected Close", "Notes", "Last Updated"} |->
        CASE k = "Company" -> "company_name"
          [] k = "Project" -> "project_name"
          [] k = "Value" -> "value"
          [] k = "Probability (%)" -> "probability"
          [] k = "Status" -> "status"
          [] k = "Start Date" -> "start_date"
          [] k = "Expected Close" -> "expected_close_date"
          [] k = "Notes" -> "notes"
          [] k = "Last Updated" -> "last_updated"]

\* mapping argument: None, or a dict.
NoMapping == [none |-> TRUE, map |-> << >>]
Mapping(m) == [none |-> FALSE, map |-> m]
ResolveMapping(mapping) == IF mapping.none THEN DefaultMapping ELSE mapping.map

\* df.rename(columns={k: v for k, v in mapping.items() if k in df.columns}):
\* the column labels after the rename; a column the mapping does not name
\* keeps its label.
rename(columns, m) ==
    [j \in 1..Len(columns) |->
        IF columns[j] \in DOMAIN m THEN m[columns[j]] ELSE columns[j]]

SetMax(S) == CHOOSE x \in S : \A y \in S : y <= x

\* df_mapped.to_dict(orient="records"): one dict per row, keyed by column
\* label; of two columns with the same label the later one is kept.
to_dict(labels, rows) ==
    [i \in 1..Len(rows) |->
        [k \in {labels[j] : j \in 1..Len(labels)} |->
            rows[i][SetMax({j \in 1..Len(labels) : labels[j] = k})]]]

\* A record handed on as it is, empty cells included.
cleaned_record_keep_all(record) == record

\* {k: v for k, v in record.items() if pd.notna(v)}
cleaned_record(record) ==
    [k \in {k \in DOMAIN record : notna(record[k])} |-> record[k]]

\* A row number that counts the data rows from 1.
RowNumberOffByOne(i) == i + 1

\* The row number an error message carries for zero-based index i.
RowNumber(i) == i + 2

NoRows == [entries |-> <<>>, validation_errors |-> <<>>, visited |-> <<>>, log |-> <<>>]

\* An iteration that records a failing row without logging it.
ValidateRowSilent(acc, record, k, ctx) ==
    LET r == FunnelEntry(cleaned_record(record))
    IN  IF r.ok THEN
            [acc EXCEPT !.entries = Append(@, r.entry), !.visited = Append(@, k - 1)]
        ELSE
            [acc EXCEPT !.validation_errors =
                            Append(@, [row |-> RowNumber(k - 1), errors |-> r.errors]),
                        !.visited = Append(@, k - 1)]

\* One iteration of the loop body on records[k] (zero-based index k - 1).
ValidateRow(acc, record, k, ctx) ==
    LET r == FunnelEntry(cleaned_record(record))
    IN  IF r.ok THEN
            [acc EXCEPT !.entries = Append(@, r.entry), !.visited = Append(@, k - 1)]
        ELSE
            [acc EXCEPT !.validation_errors =
                            Append(@, [row |-> RowNumber(k - 1), errors |-> r.errors]),
                        !.visited = Append(@, k - 1),
                        !.log = Append(@, Event("warning", "Validation error",
                                                RowNumber(k - 1), ctx))]

\* A loop that stops at the first row that fails.
RECURSIVE ValidateRowsStopAtFirst(_, _, _)
ValidateRowsStopAtFirst(records, k, ctx) ==
    IF k = 0 THEN NoRows
    ELSE LET acc == ValidateRowsStopAtFirst(records, k - 1, ctx)
         IN  IF acc.validation_errors # <<>> THEN acc
             ELSE ValidateRow(acc, records[k], k, ctx)

\* for i, record in enumerate(records): the first k records, in order.
RECURSIVE ValidateRows(_, _, _)
ValidateRows(records, k, ctx) ==
    IF k = 0 THEN NoRows
    ELSE ValidateRow(ValidateRows(records, k - 1, ctx), records[k], k, ctx)

NoData == [ok |-> FALSE]

Ret(kind, data, acc) ==
    [kind |-> kind, data |-> data, entries |-> acc.entries,
     validation_errors |-> acc.validation_errors, visited |-> acc.visited]

\* After the loop, with the errors ignored: the valid entries become the Dataset.
finishIgnoringErrors(acc, now, sheet_name) ==
    Ret("FunnelData", FunnelData(acc.entries, Date(now), Str(FilePath), sheet_name, Absent), acc)

\* After the loop: raise the aggregate ValueError if any row failed, else
\* build and return the FunnelData.
finish(acc, now, sheet_name) ==
    IF acc.validation_errors # <<>> THEN Ret("ValueError", NoData, acc)
    ELSE Ret("FunnelData",
             FunnelData(acc.entries, Date(now), Str(FilePath), sheet_name, Absent), acc)

\* The outer except clause: a ValueError whose text holds "Data validation
\* errors" is raised again as it is, every other exception as a plain Exception.
reraise_validated(kind, is_validation_text) ==
    IF kind = "ValueError" /\ is_validation_text THEN "ValueError" ELSE "Exception"

\* extract_validated_data(sheet_name, mapping): [ret, log, context, io].
extract_validated_data(ctx, sheet_name, mapping, fstate, frm, now) ==
    LET ctx1 == IF Truthy(sheet_name) THEN add_context(ctx, "sheet_name", sheet_name.s)
                ELSE ctx
        m == ResolveMapping(mapping)
        head == <<Event("info", "Extracting and validating data", 0, ctx1),
                  Event("info", IF mapping.none THEN "Using default column mapping"
                                ELSE "Using custom column mapping", 0, ctx1)>>
        ed == extract_data(ctx1, sheet_name, fstate, frm)
        wrapped == Event("error", "Error extracting and validating data", 0, ctx1)
    IN  IF IsRaise(ed.ret) THEN
            [ret |-> Ret(reraise_validated(ed.ret.kind, FALSE), NoData, NoRows),
             log |-> head \o ed.log \o <<wrapped>>,
             context |-> ed.context,
             io |-> ed.io]
        ELSE
            LET df == ed.ret.frame
                records == to_dict(rename(df.columns, m), df.rows)
                acc == ValidateRows(records, Len(records), ctx1)
                ret == finish(acc, now, sheet_name)
                body == head \o ed.log
                        \o <<Event("info", "Extracted rows of raw data", 0, ctx1),
                             Event("info", "Mapped columns", 0, ctx1)>>
                        \o acc.log
            IN  IF ret.kind = "ValueError" THEN
                    [ret |-> [ret EXCEPT !.kind = reraise_validated("ValueError", TRUE)],
                     log |-> body \o <<Event("error", "Found validation errors", 0, ctx1)>>,
                     context |-> ed.context,
                     io |-> ed.io]
                ELSE
                    [ret |-> ret,
                     log |-> body \o <<Event("info", "Successfully validated entries", 0, ctx1)>>,
                     context |-> ed.context,
                     io |-> ed.io]

-----------------------------------------------------------------------------
(* core/extraction.py: get_sheet_names, get_file_metadata                  *)

\* pd.ExcelFile(self.file_path): the exception it raises, or "none".
ExcelFile(fstate) ==
    CASE fstate = "missing" -> "FileNotFoundError"
      [] fstate = "denied" -> "PermissionError"
      [] fstate = "corrupt" -> "ValueError"
      [] OTHER -> "none"

\* get_sheet_names(): [ret, log, context, io].  There is no exists() check:
\* the first call on the file is pd.ExcelFile.
get_sheet_names(ctx, fstate, bk) ==
    LET start == <<Event("info", "Getting sheet names from Excel file", 0, ctx)>>
        raised == ExcelFile(fstate)
    IN  IF raised # "none" THEN
            [ret |-> [kind |-> Reraise(raised), names |-> <<>>],
             log |-> start \o <<Event("error",
                                      ExceptMessage(raised, "Error reading Excel file"),
                                      0, ctx)>>,
             context |-> ctx,
             io |-> <<"ExcelFile">>]
        ELSE
            [ret |-> [kind |-> "list", names |-> [i \in 1..Len(bk) |-> bk[i].name]],
             log |-> start \o <<Event("info", "Found sheets", 0, ctx)>>,
             context |-> ctx,
             io |-> <<"ExcelFile">>]

NoSheets == [sheets |-> <<>>, log |-> <<>>, io |-> <<>>, raised |-> "none"]

\* A loop that leaves out the sheets whose metadata is rejected and goes on.
RECURSIVE SheetLoopSkipInvalid(_, _, _)
SheetLoopSkipInvalid(bk, k, ctx) ==
    IF k = 0 THEN NoSheets
    ELSE LET acc == SheetLoopSkipInvalid(bk, k - 1, ctx)
             sheet_metadata == ExcelSheetMetadata(bk[k].name, bk[k].row_count,
                                                  Len(bk[k].columns), bk[k].header)
             body == [acc EXCEPT
                        !.log = @ \o <<Event("info", "Processing metadata for sheet", 0, ctx),
                                       Event("info", "Sheet rows, columns", 0, ctx)>>,
                        !.io = @ \o <<"read_excel", "read_excel">>]
         IN  IF sheet_metadata.kind # "ExcelSheetMetadata" THEN body
             ELSE [body EXCEPT !.sheets = Append(@, sheet_metadata)]

\* for sheet_name in excel_file.sheet_names: the first k sheets, in order.
\* column_headers comes from the header-only read, row_count and column_count
\* from the full read; the loop ends at the first exception.
RECURSIVE SheetLoop(_, _, _)
SheetLoop(bk, k, ctx) ==
    IF k = 0 THEN NoSheets
    ELSE LET acc == SheetLoop(bk, k - 1, ctx)
             column_headers == bk[k].header
             row_count == bk[k].row_count
             column_count == Len(bk[k].columns)
             sheet_metadata == ExcelSheetMetadata(bk[k].name, row_count, column_count,
                                                  column_headers)
             body == [acc EXCEPT
                        !.log = @ \o <<Event("info", "Processing metadata for sheet", 0, ctx),
                                       Event("info", "Sheet rows, columns", 0, ctx)>>,
                        !.io = @ \o <<"read_excel", "read_excel">>]
         IN  IF acc.raised # "none" THEN acc
             ELSE IF sheet_metadata.kind # "ExcelSheetMetadata"
                  THEN [body EXCEPT !.raised = sheet_metadata.kind]
             ELSE [body EXCEPT !.sheets = Append(@, sheet_metadata)]

\* os.stat(self.file_path): st_size and st_mtime of the workbook file.
FileStat == [st_size |-> 1024, st_mtime |-> 1]

NoMetadata == ExcelFileMetadata("", 0, 0, <<>>)

\* get_file_metadata(): [ret, log, context, io].
get_file_metadata(ctx, fstate, bk) ==
    LET start == <<Event("info", "Getting metadata for Excel file", 0, ctx)>>
        size == <<Event("info", "File size, Last modified", 0, ctx)>>
        opened == ExcelFile(fstate)
        acc == SheetLoop(bk, Len(bk), ctx)
        failed(raised, lg, io) ==
            [ret |-> [kind |-> Reraise(raised), metadata |-> NoMetadata],
             log |-> lg \o <<Event("error",
                                   ExceptMessage(raised, "Error getting file metadata"),
                                   0, ctx)>>,
             context |-> ctx,
             io |-> io]
    IN  IF ~ exists(fstate) THEN
            failed("FileNotFoundError",
                   start \o <<Event("error", "Excel file not found", 0, ctx)>>,
                   <<"exists">>)
        ELSE IF opened # "none" THEN
            failed(opened, start \o size, <<"exists", "stat", "ExcelFile">>)
        ELSE IF acc.raised # "none" THEN
            failed(acc.raised, start \o size \o acc.log,
                   <<"exists", "stat", "ExcelFile">> \o acc.io)
        ELSE
            [ret |-> [kind |-> "ExcelFileMetadata",
                      metadata |-> ExcelFileMetadata(FilePath, FileStat.st_size,
                                                     FileStat.st_mtime, acc.sheets)],
             log |-> start \o size \o acc.log
                     \o <<Event("info", "Successfully gathered metadata", 0, ctx)>>,
             context |-> ctx,
             io |-> <<"exists", "stat", "ExcelFile">> \o acc.io]

-----------------------------------------------------------------------------
(* core/extraction.py: scan_folder_for_excel_files                         *)

\* A directory entry below the scanned folder: depth 0 is directly in it,
\* depth 1 is inside a subdirectory; hidden names start with a dot.
Entry(name, ext, depth, hidden) ==
    [name |-> name, ext |-> ext, depth |-> depth, hidden |-> hidden]

\* The extension a pattern of the form "*.<ext>" asks for.
PatternExt(pattern) ==
    CASE pattern = "*.xlsx" -> "xlsx"
      [] pattern = "*.txt" -> "txt"

\* A listing that also descends into subdirectories.
glob_recursive(files, pattern) ==
    {f \in files : ~ f.hidden /\ f.ext = PatternExt(pattern)}

\* glob.glob(os.path.join(folder_path, pattern)): the entries directly in the
\* folder whose name matches; "*" does not match a leading dot.
glob(files, pattern) ==
    {f \in files : f.depth = 0 /\ ~ f.hidden /\ f.ext = PatternExt(pattern)}

\* scan_folder_for_excel_files(folder_path, pattern): [ret, log, context, io].
scan_folder_for_excel_files(ctx, folder_path, pattern, fld) ==
    LET ctx1 == add_context(add_context(ctx, "folder_path", folder_path), "pattern", pattern)
        start == <<Event("info", "Scanning folder for Excel files", 0, ctx1)>>
    IN  IF fld.kind = "missing" THEN
            [ret |-> [kind |-> Reraise("FileNotFoundError"), files |-> {}],
             log |-> start \o <<Event("error", "Folder not found", 0, ctx1),
                                Event("error", "Folder not found", 0, ctx1)>>,
             context |-> ctx1,
             io |-> <<"exists">>]
        ELSE IF fld.kind # "dir" THEN
            [ret |-> [kind |-> Reraise("ValueError"), files |-> {}],
             log |-> start \o <<Event("error", "Not a directory", 0, ctx1),
                                Event("error", "Error scanning folder for Excel files", 0, ctx1)>>,
             context |-> ctx1,
             io |-> <<"exists", "isdir">>]
        ELSE
            LET file_paths == glob(fld.files, pattern)
            IN  [ret |-> [kind |-> "list", files |-> file_paths],
                 log |-> start \o <<Event("info", "Found Excel files", 0, ctx1)>>,
                 context |-> ctx1,
                 io |-> <<"exists", "isdir", "glob">>]

-----------------------------------------------------------------------------
(* The extractor and its environment.                                      *)

MaxRows == 3        \* most data rows of the sheet

BaseColumns ==
    <<"Company", "Project", "Value", "Probability (%)", "Status", "Start Date",
      "Expected Close">>

\* A valid row, and the rows that differ from it in one cell.
BaseRow ==
    <<Str("ABC Corp"), Str("Website Redesign"), Num(50000), Num(80), Str("High"),
      Date(1), Date(1)>>

Deviations ==
    {<<1, NaN>>, <<3, Num(75000)>>, <<4, Num(120)>>, <<4, NaN>>}

RowPool == {BaseRow} \cup {[BaseRow EXCEPT ![d[1]] = d[2]] : d \in Deviations}

\* A further column the workbook may carry, with the cell it holds in every row.
ExtraColumns == {<<"probability", Num(120)>>, <<"Extra", Num(7)>>}

Frames ==
    LET plain == SeqsUpTo(RowPool, MaxRows)
    IN  {[columns |-> BaseColumns, rows |-> rs] : rs \in plain}
        \cup {[columns |-> Append(BaseColumns, x[1]),
               rows |-> [i \in 1..Len(rs) |-> Append(rs[i], x[2])]] :
              rs \in plain, x \in ExtraColumns}

\* The mapping of test_custom_mapping.
CustomMapping ==
    [k \in {"Company", "Project", "Value", "Probability (%)", "Status"} |->
        CASE k = "Company" -> "company_name"
          [] k = "Project" -> "project_name"
          [] k = "Value" -> "value"
          [] k = "Probability (%)" -> "custom_fields.probability_pct"
          [] k = "Status" -> "custom_fields.status_text"]

MappingArgs == {NoMapping, Mapping(CustomMapping)}
SheetArgs == {Null, Str(WorkbookSheet)}

ModelsUnused == phase = "idle" /\ ctor = NoCall /\ built = NoCall

\* One sheet of the workbook: its name, the column labels the header-only
\* read (nrows=0) returns, and the column labels and the number of data rows
\* the full read returns.
Sheet(name, header, columns, row_count) ==
    [name |-> name, header |-> header, columns |-> columns, row_count |-> row_count]

\* The workbook whose one sheet is frm and does not change while it is read.
BookOf(frm) ==
    IF frm = NoFrame THEN NoBook
    ELSE <<Sheet(WorkbookSheet, frm.columns, frm.columns, Len(frm.rows))>>

Init ==
    /\ ModelsUnused
    /\ \/ file_state = "ok" /\ frame \in Frames
       \/ file_state \in {"missing", "denied", "corrupt"} /\ frame = NoFrame
    /\ context = InitContext
    /\ log = <<>>
    /\ last = NoLast
    /\ folder = NoFolder
    /\ book = BookOf(frame)

\* A caller invokes extract_data(sheet_name).
ExtractData(sheet_name) ==
    LET r == extract_data(context, sheet_name, file_state, frame)
    IN  /\ last' = [op |-> "extract_data", sheet_name |-> sheet_name, ret |-> r.ret,
                    io |-> r.io]
        /\ log' = r.log
        /\ context' = r.context
        /\ UNCHANGED <<phase, ctor, built, file_state, frame, folder, book>>

\* A caller invokes extract_validated_data(sheet_name, mapping).
ExtractValidatedData(sheet_name, mapping) ==
    \E now \in Times :
        LET r == extract_validated_data(context, sheet_name, mapping, file_state, frame, now)
        IN  /\ last' = [op |-> "extract_validated_data", sheet_name |-> sheet_name,
                        mapping |-> mapping, ret |-> r.ret, io |-> r.io]
            /\ log' = r.log
            /\ context' = r.context
            /\ UNCHANGED <<phase, ctor, built, file_state, frame, folder, book>>

Next ==
    \/ \E sn \in SheetArgs : ExtractData(sn)
    \/ \E sn \in SheetArgs, mp \in MappingArgs : ExtractValidatedData(sn, mp)

Spec == Init /\ [][Next]_vars

\* The folder scan, over the folders a path can name.
FileUniverse ==
    {Entry("sample_funnel_0.xlsx", "xlsx", 0, FALSE),
     Entry("sample_funnel_1.xlsx", "xlsx", 0, FALSE),
     Entry("sample_funnel_2.xlsx", "xlsx", 0, FALSE),
     Entry("not_an_excel.txt", "txt", 0, FALSE),
     Entry(".~lock.xlsx", "xlsx", 0, TRUE),
     Entry("archive/old.xlsx", "xlsx", 1, FALSE)}

FolderPath == "test_data"
Patterns == {"*.xlsx", "*.txt"}

InitScan ==
    /\ ModelsUnused
    /\ file_state = "ok"
    /\ frame = NoFrame
    /\ context = InitContext
    /\ log = <<>>
    /\ last = NoLast
    /\ \/ folder \in {[kind |-> k, files |-> {}] : k \in {"missing", "file"}}
       \/ \E fs \in SUBSET FileUniverse : folder = [kind |-> "dir", files |-> fs]
    /\ book = NoBook

\* A caller invokes scan_folder_for_excel_files(folder_path, pattern).
ScanFolder(pattern) ==
    LET r == scan_folder_for_excel_files(context, FolderPath, pattern, folder)
    IN  /\ last' = [op |-> "scan_folder_for_excel_files", folder_path |-> FolderPath,
                    pattern |-> pattern, ret |-> r.ret, io |-> r.io]
        /\ log' = r.log
        /\ context' = r.context
        /\ UNCHANGED <<phase, ctor, built, file_state, frame, folder, book>>

NextScan == \E pattern \in Patterns : ScanFolder(pattern)

SpecScan == InitScan /\ [][NextScan]_vars

\* Sheets with empty cells: rows that differ from the valid row by one empty
\* cell, in each column in turn.
MaxNullRows == 2    \* most data rows of such a sheet

NullRowPool ==
    {BaseRow} \cup {[BaseRow EXCEPT ![j] = NaN] : j \in 1..Len(BaseColumns)}

NullFrames == {[columns |-> BaseColumns, rows |-> rs] : rs \in SeqsUpTo(NullRowPool, MaxNullRows)}

InitNulls ==
    /\ ModelsUnused
    /\ file_state = "ok"
    /\ frame \in NullFrames
    /\ context = InitContext
    /\ log = <<>>
    /\ last = NoLast
    /\ folder = NoFolder
    /\ book = BookOf(frame)

NextNulls == \E mapping \in MappingArgs : ExtractValidatedData(Str(WorkbookSheet), mapping)

SpecNulls == InitNulls /\ [][NextNulls]_vars

\* A caller invokes get_sheet_names().
GetSheetNames ==
    LET r == get_sheet_names(context, file_state, book)
    IN  /\ last' = [op |-> "get_sheet_names", ret |-> r.ret, io |-> r.io]
        /\ log' = r.log
        /\ context' = r.context
        /\ UNCHANGED <<phase, ctor, built, file_state, frame, folder, book>>

\* A caller invokes get_file_metadata().
GetFileMetadata ==
    LET r == get_file_metadata(context, file_state, book)
    IN  /\ last' = [op |-> "get_file_metadata", ret |-> r.ret, io |-> r.io]
        /\ log' = r.log
        /\ context' = r.context
        /\ UNCHANGED <<phase, ctor, built, file_state, frame, folder, book>>

\* Workbooks of several sheets.  A sheet is a header-only sheet or holds data
\* rows; between the header-only read and the full read of a sheet the
\* externally maintained workbook may gain or lose the "Notes" column.
MaxSheets == 2      \* most sheets of the workbook

SheetNames == [i \in 1..MaxSheets |-> IF i = 1 THEN WorkbookSheet ELSE "Sheet" \o ToString(i)]

SheetLayouts == {<<"Company", "Value">>, <<"Company", "Value", "Notes">>}

SheetShapes ==
    {[header |-> h, columns |-> c, row_count |-> n] :
        h \in SheetLayouts, c \in SheetLayouts, n \in 0..MaxCount}
    \cup {[header |-> <<>>, columns |-> <<>>, row_count |-> 0]}

Books ==
    {[i \in 1..Len(shapes) |->
        Sheet(SheetNames[i], shapes[i].header, shapes[i].columns, shapes[i].row_count)] :
        shapes \in SeqsUpTo(SheetShapes, MaxSheets) \ {<<>>}}

InitMeta ==
    /\ ModelsUnused
    /\ \/ file_state = "ok" /\ book \in Books
       \/ file_state \in {"missing", "denied", "corrupt"} /\ book = NoBook
    /\ frame = NoFrame
    /\ context = InitContext
    /\ log = <<>>
    /\ last = NoLast
    /\ folder = NoFolder

NextMeta == GetSheetNames \/ GetFileMetadata

SpecMeta == InitMeta /\ [][NextMeta]_vars

\* One extractor on which every public operation is called, in any order:
\* a workbook of one sheet (empty, valid, or with failing rows), or a file
\* that is missing, unreadable or corrupt, and a path to scan.
AllFrames ==
    {[columns |-> BaseColumns, rows |-> rs] :
        rs \in {<<>>,
                <<BaseRow>>,
                <<BaseRow, [BaseRow EXCEPT ![4] = Num(120)]>>,
                <<[BaseRow EXCEPT ![1] = NaN], BaseRow, [BaseRow EXCEPT ![4] = Num(120)]>>}}

AllFolders ==
    {[kind |-> k, files |-> {}] : k \in {"missing", "file"}}
    \cup {[kind |-> "dir", files |-> FileUniverse]}

InitAll ==
    /\ ModelsUnused
    /\ \/ file_state = "ok" /\ frame \in AllFrames
       \/ file_state \in {"missing", "denied", "corrupt"} /\ frame = NoFrame
    /\ book = BookOf(frame)
    /\ folder \in AllFolders
    /\ context = InitContext
    /\ log = <<>>
    /\ last = NoLast

NextAll ==
    \/ \E sheet_name \in SheetArgs : ExtractData(sheet_name)
    \/ \E sheet_name \in SheetArgs, mapping \in MappingArgs :
          ExtractValidatedData(sheet_name, mapping)
    \/ GetSheetNames
    \/ GetFileMetadata
    \/ \E pattern \in Patterns : ScanFolder(pattern)

SpecAll == InitAll /\ [][NextAll]_vars

-----------------------------------------------------------------------------
(* Properties of the data models (checked under SpecModels).               *)

BuiltEntry == phase = "built" /\ built.cls = "FunnelEntry"
BuiltData == phase = "built" /\ built.cls = "FunnelData"

RECURSIVE ListSum(_)
ListSum(es) == IF es = <<>> THEN 0 ELSE Head(es).value.n + ListSum(Tail(es))

\* C1: for a non-empty list of valid entries, FunnelData is built with
\* total_value equal to the sum of the entries' values, whatever total_value
\* (none, null or a number) the caller passed.
C1_TotalIsSumOfEntries ==
    (BuiltData /\ ctor.entries # <<>> /\ ctor.total_value.t \in {"absent", "null", "num"})
        => /\ built.result.ok
           /\ built.result.entries = ctor.entries
           /\ built.result.total_value = Num(ListSum(ctor.entries))

C1_Witness ==
    /\ BuiltData
    /\ Len(ctor.entries) = 3
    /\ ctor.total_value = Num(7)
    /\ built.result.ok
    /\ built.result.total_value = Num(225000)

\* C2: no empty Dataset is ever produced: FunnelData over an empty entry list
\* fails, and extract_validated_data never returns a Dataset without entries.
C2_NoEmptyDataset ==
    /\ BuiltData /\ ctor.entries = <<>> => ~ built.result.ok
    /\ (last.op = "extract_validated_data" /\ last.ret.kind = "FunnelData")
           => last.ret.data.entries # <<>>

\* C5: a probability p that is given is accepted exactly when 0 <= p <= 100
\* (0 and 100 included); one that is not given or is null is accepted.
C5_ProbabilityRange ==
    BuiltEntry =>
        LET p == Get(ctor.kwargs, "probability")
            r == built.result
        IN  /\ (p.t = "num" /\ (p.n < 0 \/ p.n > 100))
                   => ~ r.ok /\ "probability" \in r.errors
            /\ (p.t = "num" /\ 0 <= p.n /\ p.n <= 100)
                   => "probability" \notin r.errors /\ r.entry.probability = p
            /\ p.t \in {"absent", "null"}
                   => "probability" \notin r.errors /\ r.entry.probability = Null
            /\ (r.ok /\ r.entry.probability.t # "null")
                   => 0 <= r.entry.probability.n /\ r.entry.probability.n <= 100

C5_Witness ==
    /\ BuiltEntry
    /\ Get(ctor.kwargs, "probability") = Num(100)
    /\ built.result.ok
    /\ built.result.entry.probability = Num(100)

-----------------------------------------------------------------------------
(* Properties of the extractor (checked under Spec and SpecScan).          *)

Validated == last.op = "extract_validated_data"

\* The call read the sheet as one DataFrame and reached the row loop.
ReadRows == Validated /\ file_state = "ok" /\ last.sheet_name = Str(WorkbookSheet)

\* The records the call built from the sheet, and the rows among them (1-based)
\* that FunnelEntry rejects.
RecordsOf(frm, mapping) == to_dict(rename(frm.columns, ResolveMapping(mapping)), frm.rows)
FailingRows(frm, mapping) ==
    {i \in 1..Len(frm.rows) :
        ~ FunnelEntry(cleaned_record(RecordsOf(frm, mapping)[i])).ok}

\* C3: when k >= 1 of the N rows fail validation, all N rows are validated in
\* order and the aggregate error lists exactly the k failing rows, in row
\* order, each with row number zero-based index + 2.
C3_RowIsolation ==
    (ReadRows /\ FailingRows(frame, last.mapping) # {}) =>
        LET failing == FailingRows(frame, last.mapping)
            errs == last.ret.validation_errors
        IN  /\ last.ret.kind = "ValueError"
            /\ last.ret.visited = [i \in 1..Len(frame.rows) |-> i - 1]
            /\ Len(errs) = Cardinality(failing)
            /\ {errs[j].row : j \in 1..Len(errs)} = {(i - 1) + 2 : i \in failing}
            /\ \A j \in 1..Len(errs) - 1 : errs[j].row < errs[j + 1].row

C3_Witness ==
    /\ ReadRows
    /\ Len(frame.rows) = 3
    /\ last.ret.kind = "ValueError"
    /\ Len(last.ret.validation_errors) = 2
    /\ last.ret.validation_errors[1].row = 2
    /\ last.ret.validation_errors[2].row = 4
    /\ Len(last.ret.entries) = 1

\* C4: a returned Dataset holds exactly one entry per data row, in row order;
\* when a row fails validation no Dataset is returned.
C4_AllOrNothing ==
    Validated =>
        /\ last.ret.kind = "FunnelData" =>
              /\ ReadRows
              /\ last.ret.data.ok
              /\ Len(last.ret.data.entries) = Len(frame.rows)
              /\ \A i \in 1..Len(frame.rows) :
                    LET r == FunnelEntry(cleaned_record(RecordsOf(frame, last.mapping)[i]))
                    IN  r.ok /\ last.ret.data.entries[i] = r.entry
        /\ (ReadRows /\ FailingRows(frame, last.mapping) # {}) =>
              last.ret.kind # "FunnelData" /\ last.ret.data = NoData

C4_Witness ==
    /\ ReadRows
    /\ last.ret.kind = "FunnelData"
    /\ Len(frame.rows) = 2
    /\ last.ret.data.entries[1].value = Num(50000)
    /\ last.ret.data.entries[2].value = Num(75000)

ColumnIndex(frm, name) == {j \in 1..Len(frm.columns) : frm.columns[j] = name}

\* C7: with "Probability (%)" mapped to "custom_fields.probability_pct", each
\* entry has probability null and custom_fields["probability_pct"] equal to the
\* row's value.
C7_DottedPathRoutesToCustomFields ==
    (ReadRows /\ last.mapping = Mapping(CustomMapping) /\ last.ret.kind = "FunnelData") =>
        \A i \in 1..Len(frame.rows), j \in ColumnIndex(frame, "Probability (%)") :
            /\ last.ret.data.entries[i].probability = Null
            /\ frame.rows[i][j].t = "num" =>
                  last.ret.data.entries[i].custom_fields
                      = Dict1("probability_pct", frame.rows[i][j].n)

\* The frame without its j-th column.
DropColumn(frm, j) ==
    LET keep(q) == [i \in 1..Len(q) - 1 |-> IF i < j THEN q[i] ELSE q[i + 1]]
    IN  [columns |-> keep(frm.columns), rows |-> [i \in 1..Len(frm.rows) |-> keep(frm.rows[i])]]

\* C8: a source column the mapping does not name changes nothing: the entries
\* and row failures are those of the sheet without that column.
C8_DropSilent ==
    ReadRows =>
        \A j \in 1..Len(frame.columns) :
            frame.columns[j] \notin DOMAIN ResolveMapping(last.mapping) =>
                LET without == DropColumn(frame, j)
                    acc == ValidateRows(RecordsOf(without, last.mapping),
                                        Len(without.rows), context)
                IN  /\ last.ret.entries = acc.entries
                    /\ last.ret.validation_errors = acc.validation_errors

\* C9: scanning a path that exists but is not a directory fails with ValueError.
C9_NotADirectoryIsValueError ==
    (last.op = "scan_folder_for_excel_files" /\ folder.kind = "file")
        => last.ret.kind = "ValueError"

\* C10: extract_validated_data fails with FileNotFoundError when the workbook
\* is missing and with PermissionError when it cannot be accessed, before any
\* row is validated.
C10_KeepsAdapterErrorKind ==
    Validated =>
        /\ file_state = "missing" =>
              last.ret.kind = "FileNotFoundError" /\ last.ret.visited = <<>>
        /\ file_state = "denied" =>
              last.ret.kind = "PermissionError" /\ last.ret.visited = <<>>

-----------------------------------------------------------------------------
(* Properties of ExcelSheetMetadata and of built models in the caller's    *)
(* hands (checked under SpecModels).                                        *)

BuiltSheetMetadata == phase = "built" /\ built.cls = "ExcelSheetMetadata"

\* C12: ExcelSheetMetadata with row_count <= 0 or column_count <= 0 is
\* rejected with a ValidationError, whatever the other fields are, and is
\* built when both counts are positive.
C12_NonPositiveCountIsValidationError ==
    BuiltSheetMetadata =>
        IF ctor.row_count <= 0 \/ ctor.column_count <= 0
        THEN built.result.kind = "ValidationError"
        ELSE built.result.kind = "ExcelSheetMetadata"

\* C13: a constructed FunnelEntry has a non-empty company_name and a
\* non-empty project_name; construction with either one empty or missing
\* fails.
C13_RequiredStringsNonEmpty ==
    (BuiltEntry /\ built.result.ok)
        => /\ built.result.entry.company_name.t = "str"
           /\ built.result.entry.company_name.s # ""
           /\ built.result.entry.project_name.t = "str"
           /\ built.result.entry.project_name.s # ""

\* C18: once a FunnelEntry or a FunnelData has been returned, it is in every
\* later state the object the constructor returned; in particular a
\* FunnelData over entries keeps total_value equal to the sum of their values.
C18_ImmutableOnceReturned ==
    /\ (phase \in {"built", "assigned"} /\ built.cls = "FunnelEntry")
           => built.result = FunnelEntry(ctor.kwargs)
    /\ (phase \in {"built", "assigned"} /\ built.cls = "FunnelData" /\ built.result.ok)
           => /\ built.result.entries = ctor.entries
              /\ built.result.entries # <<>>
                     => built.result.total_value = Num(ListSum(built.result.entries))
              /\ built.result.sheet_name = ctor.sheet_name
              /\ built.result.extraction_date = ctor.extraction_date

-----------------------------------------------------------------------------
(* Empty cells (checked under SpecNulls).                                  *)

\* The keys of a record whose cell is empty, and the row numbers the aggregate
\* error of the last call reports.
NullKeys(record) == {k \in DOMAIN record : record[k].t \in {"null", "nan"}}
ReportedRows == {last.ret.validation_errors[j].row : j \in 1..Len(last.ret.validation_errors)}

\* C16: an empty cell is a field that is not provided.  On a sheet whose
\* cells are valid wherever they are not empty, the rows reported as failing
\* are exactly the rows with an empty company, project or value, each
\* reported for those fields, and every other row validates into an entry
\* whose fields with an empty cell hold the field's default.
C16_NullsAreNotProvided ==
    ReadRows =>
        LET records == RecordsOf(frame, last.mapping)
            reported == ReportedRows
            errs == last.ret.validation_errors
        IN  \A i \in 1..Len(records) :
                LET missing == NullKeys(records[i]) \cap RequiredFields
                    pos == Cardinality({j \in 1..i : j + 1 \notin reported})
                IN  /\ (i + 1 \in reported) <=> (missing # {})
                    /\ \A j \in 1..Len(errs) : errs[j].row = i + 1 => errs[j].errors = missing
                    /\ (missing = {}) =>
                          /\ pos <= Len(last.ret.entries)
                          /\ \A k \in NullKeys(records[i]) \cap FieldSet :
                                 last.ret.entries[pos][k] = FieldDefault(k)

C16_Witness ==
    /\ ReadRows
    /\ last.mapping = NoMapping
    /\ Len(frame.rows) = 2
    /\ frame.rows[1] = [BaseRow EXCEPT ![4] = NaN]
    /\ frame.rows[2] = [BaseRow EXCEPT ![1] = NaN]
    /\ last.ret.kind = "ValueError"
    /\ ReportedRows = {3}
    /\ Len(last.ret.entries) = 1
    /\ last.ret.entries[1].probability = Null
    /\ last.ret.entries[1].company_name = Str("ABC Corp")

-----------------------------------------------------------------------------
(* Scenario B and the optional sheet argument (checked under Spec).        *)

\* Rows of the pool that FunnelEntry accepts under the default mapping.
ValidPoolRows ==
    {BaseRow, [BaseRow EXCEPT ![3] = Num(75000)], [BaseRow EXCEPT ![4] = NaN]}

\* Scenario B: a sheet of three rows, read with the default mapping, whose
\* second row has Probability = 120 and whose other rows are valid.
ScenarioB ==
    /\ ReadRows
    /\ last.mapping = NoMapping
    /\ "probability" \notin {frame.columns[j] : j \in 1..Len(frame.columns)}
    /\ Len(frame.rows) = 3
    /\ \A i \in {1, 3} : \E r \in ValidPoolRows :
           \A j \in 1..Len(BaseColumns) : frame.rows[i][j] = r[j]
    /\ \A j \in 1..Len(BaseColumns) : frame.rows[2][j] = [BaseRow EXCEPT ![4] = Num(120)][j]

\* C14 as stated: in Scenario B no Dataset is produced and the aggregate
\* validation error names exactly row 2.
C14_ScenarioBNamesRow2 ==
    ScenarioB =>
        /\ last.ret.kind = "ValueError"
        /\ last.ret.data = NoData
        /\ ReportedRows = {2}

\* C14, amended: in Scenario B no Dataset is produced and the aggregate
\* validation error names exactly one row, Row 3 (the second data row:
\* zero-based index 1, plus 2), for its probability.
C14_ScenarioBNamesRow3 ==
    ScenarioB =>
        /\ last.ret.kind = "ValueError"
        /\ last.ret.data = NoData
        /\ Len(last.ret.validation_errors) = 1
        /\ last.ret.validation_errors[1] = [row |-> 3, errors |-> {"probability"}]

C14_Witness ==
    /\ ScenarioB
    /\ frame.rows[1] = BaseRow
    /\ frame.rows[3] = [BaseRow EXCEPT ![3] = Num(75000)]
    /\ last.ret.kind = "ValueError"
    /\ ReportedRows = {3}
    /\ Len(last.ret.entries) = 2

\* C19: the sheet argument is optional: on a readable workbook extract_data
\* without a sheet name returns one table, and extract_validated_data without
\* a sheet name on rows that are all valid returns a Dataset whose sheet_name
\* is null.
C19_SheetArgumentOptional ==
    /\ (last.op = "extract_data" /\ file_state = "ok" /\ last.sheet_name = Null)
           => last.ret.kind = "DataFrame"
    /\ (Validated /\ file_state = "ok" /\ last.sheet_name = Null
           /\ FailingRows(frame, last.mapping) = {})
           => /\ last.ret.kind = "FunnelData"
              /\ last.ret.data.sheet_name = Null

-----------------------------------------------------------------------------
(* The folder scan (checked under SpecScan).                               *)

Scanned == last.op = "scan_folder_for_excel_files"

\* The name of a directory entry matches a pattern "*.<ext>".
Matches(f, pattern) ==
    CASE pattern = "*.xlsx" -> f.ext = "xlsx" /\ ~ f.hidden
      [] pattern = "*.txt" -> f.ext = "txt" /\ ~ f.hidden

\* C15: scanning an existing directory returns exactly the files directly in
\* it whose names match the pattern: every matching file is returned, no
\* other file is, and files inside subdirectories are not.
C15_ScanReturnsMatchingFiles ==
    (Scanned /\ folder.kind = "dir") =>
        /\ last.ret.kind = "list"
        /\ \A f \in folder.files :
               f \in last.ret.files <=> (f.depth = 0 /\ Matches(f, last.pattern))
        /\ last.ret.files \subseteq folder.files

C15_Witness ==
    /\ Scanned
    /\ folder.kind = "dir"
    /\ folder.files = FileUniverse
    /\ last.pattern = "*.xlsx"
    /\ Cardinality(last.ret.files) = 3
    /\ Entry("archive/old.xlsx", "xlsx", 1, FALSE) \notin last.ret.files
    /\ Entry("not_an_excel.txt", "txt", 0, FALSE) \notin last.ret.files

-----------------------------------------------------------------------------
(* File metadata (checked under SpecMeta).                                 *)

GotMetadata == last.op = "get_file_metadata" /\ last.ret.kind = "ExcelFileMetadata"

\* C17: every sheet metadata that get_file_metadata returns has column_count
\* equal to the number of its column_headers, also when the workbook changes
\* between the header-only read and the full read of a sheet.
C17_ColumnCountMatchesHeaders ==
    GotMetadata =>
        \A i \in 1..Len(last.ret.metadata.sheets) :
            last.ret.metadata.sheets[i].column_count
                = Len(last.ret.metadata.sheets[i].column_headers)

-----------------------------------------------------------------------------
(* Error reporting of the public operations (checked under SpecAll).       *)

\* Calls on the workbook or the directory that read or list something.
Reads == {"ExcelFile", "read_excel", "glob"}

NoReadAttempted == \A i \in 1..Len(last.io) : last.io[i] \notin Reads

\* C11: on a file path that does not exist extract_data and
\* get_file_metadata, and on a folder path that does not exist
\* scan_folder_for_excel_files, fail with FileNotFoundError without
\* attempting a workbook read or a directory listing.
C11_MissingPathFailsBeforeRead ==
    /\ (last.op \in {"extract_data", "get_file_metadata"} /\ file_state = "missing")
           => last.ret.kind = "FileNotFoundError" /\ NoReadAttempted
    /\ (Scanned /\ folder.kind = "missing")
           => last.ret.kind = "FileNotFoundError" /\ NoReadAttempted

C11_Witness ==
    /\ last.op = "get_file_metadata"
    /\ file_state = "missing"
    /\ last.ret.kind = "FileNotFoundError"
    /\ last.io = <<"exists">>

\* The last call ended in an exception.
ErrorOutcome ==
    /\ last.op # "none"
    /\ last.ret.kind \in {"FileNotFoundError", "PermissionError", "ValueError", "Exception"}

\* C20: a public operation that ends in an error has logged, in that call,
\* an error-level event whose context carries the file path; before an
\* aggregate validation error, each failing row has a warning that names it,
\* logged before the error event.
C20_ErrorsAreLoggedFirst ==
    ErrorOutcome =>
        /\ \E i \in 1..Len(log) : log[i].level = "error" /\ log[i].ctx.file_path = FilePath
        /\ (Validated /\ last.ret.kind = "ValueError") =>
               \A j \in 1..Len(last.ret.validation_errors) :
                   \E i \in 1..Len(log) :
                       /\ log[i].level = "warning"
                       /\ log[i].row = last.ret.validation_errors[j].row
                       /\ log[i].ctx.file_path = FilePath
                       /\ \E k \in (i + 1)..Len(log) : log[k].level = "error"

C20_Witness ==
    /\ Validated
    /\ last.ret.kind = "ValueError"
    /\ Len(last.ret.validation_errors) = 2
    /\ Len(log) >= 3
    /\ log[Len(log)].level = "error"
    /\ log[Len(log) - 1] = Event("warning", "Validation error", 4, context)
    /\ log[Len(log) - 2] = Event("warning", "Validation error", 2, context)

-----------------------------------------------------------------------------
(* Repeated calls on one extractor (checked under SpecAll).                *)

\* C21: the outcome of a call is the outcome the same call has on a freshly
\* constructed extractor over the same workbook and folder, whatever calls
\* were made before it, and the file path the extractor was configured with
\* never changes.
C21_CallsAreIndependent ==
    /\ context.file_path = FilePath
    /\ last.op = "extract_data" =>
           last.ret = extract_data(InitContext, last.sheet_name, file_state, frame).ret
    /\ last.op = "extract_validated_data" =>
           \E now \in Times :
               last.ret = extract_validated_data(InitContext, last.sheet_name, last.mapping,
                                                 file_state, frame, now).ret
    /\ last.op = "get_sheet_names" =>
           last.ret = get_sheet_names(InitContext, file_state, book).ret
    /\ last.op = "get_file_metadata" =>
           last.ret = get_file_metadata(InitContext, file_state, book).ret
    /\ last.op = "scan_folder_for_excel_files" =>
           last.ret = scan_folder_for_excel_files(InitContext, last.folder_path,
                                                  last.pattern, folder).ret

\* A call without a sheet name on an extractor that an earlier call used
\* with "Sheet1" and that has scanned a folder.
C21_Witness ==
    /\ last.op = "extract_data"
    /\ last.sheet_name = Null
    /\ file_state = "ok"
    /\ context.sheet_name = WorkbookSheet
    /\ context.folder_path = FolderPath
    /\ last.ret.kind = "Exception"

\* The keys a call can add to the logging context.
ContextKeys == {"sheet_name", "folder_path", "pattern"}

\* C22: the logging context is never cleared.  In every call, each key an
\* earlier call added is still set afterwards and attached to every log
\* event of the call; a call made without a sheet name leaves sheet_name as
\* it was and logs it.
C22_ContextNeverCleared ==
    [][ /\ \A k \in ContextKeys :
             context[k] # "" =>
                 /\ context'[k] # ""
                 /\ \A i \in 1..Len(log') : log'[i].ctx[k] # ""
        /\ (last'.op \in {"extract_data", "extract_validated_data"}
               /\ ~ Truthy(last'.sheet_name)) =>
                 /\ context'.sheet_name = context.sheet_name
                 /\ \A i \in 1..Len(log') : log'[i].ctx.sheet_name = context.sheet_name
        /\ last'.op \in {"get_sheet_names", "get_file_metadata"} =>
                 /\ context' = context
                 /\ \A i \in 1..Len(log') : log'[i].ctx = context
      ]_vars

\* A call without a sheet name, after a call on "Sheet1" and a folder scan,
\* logs sheet_name=Sheet1 and the scanned folder.
C22_Witness ==
    /\ last.op = "extract_validated_data"
    /\ last.sheet_name = Null
    /\ context.sheet_name = WorkbookSheet
    /\ context.folder_path = FolderPath
    /\ Len(log) > 0
    /\ \A i \in 1..Len(log) :
           log[i].ctx.sheet_name = WorkbookSheet /\ log[i].ctx.folder_path = FolderPath

-----------------------------------------------------------------------------
(* All-or-nothing file metadata (checked under SpecMeta).                  *)

\* The sheets of the workbook without data rows or without columns.
EmptySheets == {i \in 1..Len(book) : book[i].row_count = 0 \/ Len(book[i].columns) = 0}

\* C23: on a readable workbook get_file_metadata either returns one sheet
\* metadata per sheet, in sheet order, with the size and modification time of
\* the file, or, when a sheet has no data rows or no columns, fails and
\* returns no metadata at all.
C23_MetadataAllOrNothing ==
    (last.op = "get_file_metadata" /\ file_state = "ok") =>
        IF EmptySheets # {} THEN
            /\ last.ret.kind = "Exception"
            /\ last.ret.metadata = NoMetadata
        ELSE
            /\ last.ret.kind = "ExcelFileMetadata"
            /\ last.ret.metadata.file_size = FileStat.st_size
            /\ last.ret.metadata.last_modified = FileStat.st_mtime
            /\ Len(last.ret.metadata.sheets) = Len(book)
            /\ \A i \in 1..Len(book) :
                   /\ last.ret.metadata.sheets[i].sheet_name = book[i].name
                   /\ last.ret.metadata.sheets[i].row_count = book[i].row_count
                   /\ last.ret.metadata.sheets[i].column_count = Len(book[i].columns)

\* A workbook whose first sheet is valid and whose second has no data rows.
C23_Witness ==
    /\ last.op = "get_file_metadata"
    /\ file_state = "ok"
    /\ Len(book) = 2
    /\ EmptySheets = {2}
    /\ last.ret.kind = "Exception"
    /\ last.ret.metadata = NoMetadata


====
